---- MODULE Spec2Model ----
(***************************************************************************)
(* Model of the form-submission state engine of FormPreviewer.tsx.        *)
(*                                                                         *)
(* One form session is one mounted FormPreviewer (a page / tab).  Every   *)
(* session owns the React state of the component: formDataMap (its copy   *)
(* of the whole persisted mapping, useLocalStorage), formData (useMap),   *)
(* the map useMap was constructed with (the target of its reset), errors  *)
(* (useSet) and loading.  localStorage itself (store) is shared by all    *)
(* sessions.  Handlers run one at a time and the component re-renders     *)
(* between two events, so a handler sees the current state; a timer       *)
(* callback sees the values its closure captured when it was scheduled.   *)
(***************************************************************************)
EXTENDS Integers, Sequences, FiniteSets, TLC

\* ---------------------------------------------------------------- bounds
MaxEdits == 2
MaxSubmits == 2
MaxKeyChanges == 1
MaxWriteFailures == 1

\* session 1 is the page under study, session 2 another page on the same localStorage
Sessions == {1, 2}

\* ------------------------------------------------------- JavaScript values
NULL == "<null>"
UNDEFINED == "<undefined>"
EMPTY == ""
ZERO == "<0>"
TEXT == "x"

\* value == null
IsNullish(v) == v \in {NULL, UNDEFINED}

\* a comparison with '' that every value passes
LooseEqEmptyAny(v) == v \in {EMPTY, ZERO, TEXT}

\* value == '' (loose equality: '' and 0 are equal)
LooseEqEmpty(v) == v \in {EMPTY, ZERO}

\* the values a form control can hand to onChange: "a" is a text field,
\* "b" a number field
EditValues(fieldId) == IF fieldId = "b" THEN {NULL, ZERO, TEXT} ELSE {NULL, EMPTY, TEXT}

\* --------------------------------------------------- plain-object helpers
EmptyObj == [x \in {} |-> x]

\* { ...m, [k]: v }
Put(m, k, v) == [x \in (DOMAIN m) \cup {k} |-> IF x = k THEN v ELSE m[x]]

\* lodash omit(m, k)
Omit(m, k) == [x \in (DOMAIN m) \ {k} |-> m[x]]

\* m?.[k] ?? {}
GetOrEmpty(m, k) == IF k \in DOMAIN m THEN m[k] ELSE EmptyObj

\* a presence test in place of the null test
HasNonNullKeyOnly(m, k) == k \in DOMAIN m

\* m[k] != null
HasNonNull(m, k) == k \in DOMAIN m /\ ~IsNullish(m[k])

\* ------------------------------------------------------------- identities
TableIds == {"tbl1"}
ViewIds == {"viw1", "viw2"}

generateUniqLocalKey(tableId, viewId) == <<tableId, viewId>>

\* ----------------------------------------------------------------- fields
FieldIds == {"a", "b", "c"}

Field(id, computed, lookup) == [id |-> id, isComputed |-> computed, isLookup |-> lookup]

\* the field list and column metadata the provider supplies in the session runs
DefaultFields == <<Field("a", FALSE, FALSE), Field("b", FALSE, FALSE), Field("c", TRUE, FALSE)>>

DefaultColumnMeta == [f \in FieldIds |-> [required |-> TRUE]]

VARIABLES
    fields,        \* useFields(): the ordered field descriptors
    columnMeta,    \* view.columnMeta
    store,         \* localStorage[ViewFromData]: StorageKey -> draft
    mounted,       \* session -> has the component mounted
    tableId,       \* session -> useTableId()
    viewId,        \* session -> view?.id
    formDataMap,   \* session -> useLocalStorage state
    formData,      \* session -> useMap state
    initialMap,    \* session -> the map useMap was constructed with
    errors,        \* session -> useSet state
    loading,       \* session -> useState(false)
    writes,        \* session -> queue of pending setTimeout(0) closures of onChange
    phase,         \* session -> position of the async onSubmit and the closure it runs in
    submitCalls,   \* session -> the arguments submit was invoked with, in order
    edits,         \* number of field edits so far
    keyChanges,    \* number of mounts and identity changes so far
    writeFailed,   \* number of durable writes that silently did nothing
    last           \* the event handled last

vars == <<fields, columnMeta, store, mounted, tableId, viewId, formDataMap, formData,
          initialMap, errors, loading, writes, phase, submitCalls,
          edits, keyChanges, writeFailed, last>>

localKey(s) == generateUniqLocalKey(tableId[s], viewId[s])

\* ------------------------------------------------------------ validation
\* every field taken as visible
visibleFieldsAll(fs) == fs

\* fields.filter(({ isComputed, isLookup }) => !isComputed && !isLookup)
visibleFields(fs) == SelectSeq(fs, LAMBDA f : ~f.isComputed /\ ~f.isLookup)

RECURSIVE ReduceRequired(_, _, _, _)
ReduceRequired(vf, cm, i, acc) ==
    IF i > Len(vf) THEN acc
    ELSE ReduceRequired(vf, cm, i + 1,
                        IF cm[vf[i].id].required THEN Append(acc, vf[i].id) ELSE acc)

\* only the first required field is collected
requiredFieldIdsFirstOnly(fs, cm) ==
    LET all == ReduceRequired(visibleFields(fs), cm, 1, <<>>)
    IN IF Len(all) > 1 THEN <<all[1]>> ELSE all

requiredFieldIds(fs, cm) == ReduceRequired(visibleFields(fs), cm, 1, <<>>)

\* firstErrorFieldId assigned on every failing field
RECURSIVE VerifyEachLast(_, _, _, _, _)
VerifyEachLast(ids, data, i, first, errs) ==
    IF i > Len(ids) THEN [first |-> first, errs |-> errs]
    ELSE IF HasNonNull(data, ids[i]) THEN VerifyEachLast(ids, data, i + 1, first, errs)
    ELSE VerifyEachLast(ids, data, i + 1, ids[i], errs \cup {ids[i]})

\* requiredFieldIds.forEach(...): carries firstErrorFieldId and the added errors
RECURSIVE VerifyEach(_, _, _, _, _)
VerifyEach(ids, data, i, first, errs) ==
    IF i > Len(ids) THEN [first |-> first, errs |-> errs]
    ELSE IF HasNonNull(data, ids[i]) THEN VerifyEach(ids, data, i + 1, first, errs)
    ELSE VerifyEach(ids, data, i + 1,
                    IF first = "" THEN ids[i] ELSE first,
                    errs \cup {ids[i]})

onVerify(fs, cm, data) ==
    LET ids == requiredFieldIds(fs, cm)
        r == VerifyEach(ids, data, 1, "", {})
    IN IF Len(ids) = 0 THEN [ok |-> TRUE, errors |-> {}, first |-> ""]
       ELSE IF r.first = "" THEN [ok |-> TRUE, errors |-> r.errs, first |-> ""]
       ELSE [ok |-> FALSE, errors |-> r.errs, first |-> r.first]

\* ---------------------------------------------------------- useMap, useSet
\* a reset that reads the draft back from localStorage
resetFormDataFromStore(s) == GetOrEmpty(store, generateUniqLocalKey(tableId[s], viewId[s]))

\* useMap reset: set(initialMap), the map the hook was constructed with
resetFormData(s) == initialMap[s]

\* ------------------------------------------------------- useLocalStorage
\* setFormDataMap(v): localStorage.setItem then setState; a throwing
\* setItem is swallowed and neither happens
setFormDataMap(s, v, ok) ==
    /\ store' = IF ok THEN v ELSE store
    /\ formDataMap' = IF ok THEN [formDataMap EXCEPT ![s] = v] ELSE formDataMap
    /\ writeFailed' = IF ok THEN writeFailed ELSE writeFailed + 1

\* ------------------------------------------------------------ the closures
\* a callback that persists the edited field without the rest of formData
writeValueNoSpread(w) ==
    IF IsNullish(w.value)
    THEN Put(w.formDataMap, w.localKey, EmptyObj)
    ELSE Put(w.formDataMap, w.localKey, Put(EmptyObj, w.fieldId, w.value))

\* what the setTimeout callback of onChange writes
writeValue(w) ==
    IF IsNullish(w.value)
    THEN Put(w.formDataMap, w.localKey, Omit(w.formData, w.fieldId))
    ELSE Put(w.formDataMap, w.localKey, Put(w.formData, w.fieldId, w.value))

Idle == [pc |-> "idle"]

\* ------------------------------------------------------------------ Init
K1 == generateUniqLocalKey("tbl1", "viw1")
K2 == generateUniqLocalKey("tbl1", "viw2")

DraftA == Put(EmptyObj, "a", TEXT)
DraftB == Put(EmptyObj, "b", TEXT)

\* what localStorage may hold when the first session mounts
InitStores == {EmptyObj, Put(Put(EmptyObj, K1, DraftA), K2, DraftB)}

\* the identities the hooks may report at the first render
InitIdentities == {<<"tbl1", "viw1">>, <<UNDEFINED, UNDEFINED>>}

Identities == TableIds \X ViewIds

\* the state of a session right after its first render with identity id
\* over the persisted mapping st
InitSessions(st, id) ==
    /\ mounted = [s \in Sessions |-> s = 1]
    /\ tableId = [s \in Sessions |-> IF s = 1 THEN id[1] ELSE UNDEFINED]
    /\ viewId = [s \in Sessions |-> IF s = 1 THEN id[2] ELSE UNDEFINED]
    /\ formDataMap = [s \in Sessions |-> IF s = 1 THEN st ELSE EmptyObj]
    /\ formData = [s \in Sessions |->
                     IF s = 1 THEN GetOrEmpty(st, generateUniqLocalKey(id[1], id[2])) ELSE EmptyObj]
    /\ initialMap = formData
    /\ errors = [s \in Sessions |-> {}]
    /\ loading = [s \in Sessions |-> FALSE]
    /\ writes = [s \in Sessions |-> <<>>]
    /\ phase = [s \in Sessions |-> Idle]
    /\ submitCalls = [s \in Sessions |-> <<>>]
    /\ edits = 0
    /\ keyChanges = 0
    /\ writeFailed = 0
    /\ last = [op |-> "Mount", s |-> 1]

Init ==
    /\ fields = DefaultFields
    /\ columnMeta = DefaultColumnMeta
    /\ store \in InitStores
    /\ InitSessions(store, <<"tbl1", "viw1">>)

\* --------------------------------------------------------------- actions
\* a second page mounts the component: useLocalStorage reads the whole
\* mapping, useMap is constructed with formDataMap?.[localKey] ?? {}
Mount(s, id) ==
    /\ ~mounted[s]
    /\ keyChanges < MaxKeyChanges
    /\ keyChanges' = keyChanges + 1
    /\ mounted' = [mounted EXCEPT ![s] = TRUE]
    /\ tableId' = [tableId EXCEPT ![s] = id[1]]
    /\ viewId' = [viewId EXCEPT ![s] = id[2]]
    /\ formDataMap' = [formDataMap EXCEPT ![s] = store]
    /\ formData' = [formData EXCEPT ![s] = GetOrEmpty(store, generateUniqLocalKey(id[1], id[2]))]
    /\ initialMap' = [initialMap EXCEPT ![s] = GetOrEmpty(store, generateUniqLocalKey(id[1], id[2]))]
    /\ last' = [op |-> "Mount", s |-> s]
    /\ UNCHANGED <<fields, columnMeta, store, errors, loading, writes, phase, submitCalls,
                   edits, writeFailed>>

\* useTableId() / useView() report another identity: the component
\* re-renders with a new localKey, every hook keeps its state
IdentityChange(s, id) ==
    /\ mounted[s]
    /\ keyChanges < MaxKeyChanges
    /\ id # <<tableId[s], viewId[s]>>
    /\ tableId' = [tableId EXCEPT ![s] = id[1]]
    /\ viewId' = [viewId EXCEPT ![s] = id[2]]
    /\ keyChanges' = keyChanges + 1
    /\ last' = [op |-> "IdentityChange", s |-> s]
    /\ UNCHANGED <<fields, columnMeta, store, mounted, formDataMap, formData, initialMap,
                   errors, loading, writes, phase, submitCalls, edits, writeFailed>>

\* the ids of the fields a FormField is rendered for
RenderedFieldIds(s) ==
    IF viewId[s] = UNDEFINED THEN {}
    ELSE {visibleFields(fields)[i].id : i \in 1..Len(visibleFields(fields))}

\* onChange without its removeError
onChangeErrorsKept(errs, fieldId, value) == errs

\* the state part of onChange: removeError / removeFormData / setFormData
onChangeErrors(errs, fieldId, value) ==
    IF fieldId \in errs /\ ~IsNullish(value) /\ ~LooseEqEmpty(value)
    THEN errs \ {fieldId} ELSE errs

\* setFormData on every value, null included
onChangeFormDataStoresNull(data, fieldId, value) == Put(data, fieldId, value)

\* removeFormData(fieldId) for null, setFormData(fieldId, value) otherwise
onChangeFormData(data, fieldId, value) ==
    IF IsNullish(value) THEN Omit(data, fieldId) ELSE Put(data, fieldId, value)

\* onChange(fieldId, value)
Edit(s, fieldId, value) ==
    /\ mounted[s]
    /\ fieldId \in RenderedFieldIds(s)
    /\ edits < MaxEdits
    /\ errors' = [errors EXCEPT ![s] = onChangeErrors(errors[s], fieldId, value)]
    /\ formData' = [formData EXCEPT ![s] = onChangeFormData(formData[s], fieldId, value)]
    /\ writes' = [writes EXCEPT ![s] = Append(@, [formDataMap |-> formDataMap[s],
                                                   localKey |-> localKey(s),
                                                   formData |-> formData[s],
                                                   fieldId |-> fieldId,
                                                   value |-> value,
                                                   stale |-> FALSE])]
    /\ edits' = edits + 1
    /\ last' = [op |-> "Edit", s |-> s, fieldId |-> fieldId, value |-> value,
                flagged |-> fieldId \in errors[s]]
    /\ UNCHANGED <<fields, columnMeta, store, mounted, tableId, viewId, formDataMap,
                   initialMap, loading, phase, submitCalls, keyChanges, writeFailed>>

\* the writes that have to fire before the 1000 ms timer: those already
\* scheduled when it was set
BarrierAfterWrite(p) ==
    IF p.pc = "timer" /\ p.barrier > 0 THEN [p EXCEPT !.barrier = @ - 1] ELSE p

\* the oldest setTimeout(0) callback of onChange fires
WriteFire(s, ok) ==
    /\ writes[s] # <<>>
    /\ ok \/ writeFailed < MaxWriteFailures
    /\ setFormDataMap(s, writeValue(Head(writes[s])), ok)
    /\ writes' = [writes EXCEPT ![s] = Tail(@)]
    /\ phase' = [phase EXCEPT ![s] = BarrierAfterWrite(@)]
    /\ last' = [op |-> "WriteFire", s |-> s, ok |-> ok,
                localKey |-> Head(writes[s]).localKey, stale |-> Head(writes[s]).stale]
    /\ UNCHANGED <<fields, columnMeta, mounted, tableId, viewId, formData, initialMap,
                   errors, loading, submitCalls, edits, keyChanges>>

\* the closure onReset runs in: the render of the submit click
Timer(s) == [pc |-> "timer", formDataMap |-> formDataMap[s], localKey |-> localKey(s),
             barrier |-> Len(writes[s])]

InFlight(s) == [pc |-> "inflight", formDataMap |-> formDataMap[s], localKey |-> localKey(s)]

\* onSubmit without its early return
proceedsAlways(v) == TRUE

\* if (!onVerify()) return;
proceeds(v) == v.ok

\* a submit button that is never disabled
canClickAlways(s) == TRUE

\* <Button onClick={onSubmit} disabled={loading}>
canClick(s) == ~loading[s]

\* onVerify without its resetErrors()
verifyErrorsMerged(errs, v) == errs \cup v.errors

\* resetErrors() followed by the addError calls of onVerify
verifyErrors(errs, v) == v.errors

\* a click on the submit button: onSubmit up to its await (or, without a
\* submit prop, up to its setTimeout)
SubmitClick(s, hasSubmit) ==
    LET v == onVerify(fields, columnMeta, formData[s]) IN
    /\ mounted[s]
    /\ viewId[s] # UNDEFINED
    /\ Len(visibleFields(fields)) > 0
    /\ canClick(s)
    /\ hasSubmit => Len(submitCalls[s]) < MaxSubmits
    /\ errors' = [errors EXCEPT ![s] = verifyErrors(errors[s], v)]
    /\ last' = [op |-> "SubmitClick", s |-> s, ok |-> v.ok, first |-> v.first,
                hasSubmit |-> hasSubmit, errorsBefore |-> errors[s]]
    /\ IF ~proceeds(v)
       THEN UNCHANGED <<loading, phase, submitCalls>>
       ELSE /\ loading' = [loading EXCEPT ![s] = TRUE]
            /\ phase' = [phase EXCEPT ![s] = IF hasSubmit THEN InFlight(s) ELSE Timer(s)]
            /\ submitCalls' = IF hasSubmit
                              THEN [submitCalls EXCEPT ![s] = Append(@, formData[s])]
                              ELSE submitCalls
    /\ UNCHANGED <<fields, columnMeta, store, mounted, tableId, viewId, formDataMap, formData,
                   initialMap, writes, edits, keyChanges, writeFailed>>

\* await submit(formData) resumes: setTimeout(..., 1000)
SubmitResolve(s) ==
    /\ phase[s].pc = "inflight"
    /\ phase' = [phase EXCEPT ![s] = [pc |-> "timer", formDataMap |-> @.formDataMap,
                                      localKey |-> @.localKey, barrier |-> Len(writes[s])]]
    /\ last' = [op |-> "SubmitResolve", s |-> s]
    /\ UNCHANGED <<fields, columnMeta, store, mounted, tableId, viewId, formDataMap, formData,
                   initialMap, errors, loading, writes, submitCalls, edits, keyChanges,
                   writeFailed>>

\* a rejection handled by resetting the form
SubmitRejectResets(s) ==
    /\ phase[s].pc = "inflight"
    /\ phase' = [phase EXCEPT ![s] = Idle]
    /\ loading' = [loading EXCEPT ![s] = FALSE]
    /\ formData' = [formData EXCEPT ![s] = resetFormData(s)]
    /\ last' = [op |-> "SubmitReject", s |-> s]
    /\ UNCHANGED <<fields, columnMeta, store, mounted, tableId, viewId, formDataMap,
                   initialMap, errors, writes, submitCalls, edits, keyChanges,
                   writeFailed>>

\* await submit(formData) throws: onSubmit ends there
SubmitReject(s) ==
    /\ phase[s].pc = "inflight"
    /\ phase' = [phase EXCEPT ![s] = Idle]
    /\ last' = [op |-> "SubmitReject", s |-> s]
    /\ UNCHANGED <<fields, columnMeta, store, mounted, tableId, viewId, formDataMap, formData,
                   initialMap, errors, loading, writes, submitCalls, edits, keyChanges,
                   writeFailed>>

\* the callbacks of onChange still pending when onReset runs were scheduled
\* before it: they are marked, their behaviour is unchanged
MarkStale(q) == [i \in 1..Len(q) |-> [q[i] EXCEPT !.stale = TRUE]]

\* the setTimeout(1000) callback of onSubmit fires: onReset()
ResetFire(s, ok) ==
    /\ phase[s].pc = "timer"
    /\ phase[s].barrier = 0
    /\ ok \/ writeFailed < MaxWriteFailures
    /\ loading' = [loading EXCEPT ![s] = FALSE]
    /\ formData' = [formData EXCEPT ![s] = resetFormData(s)]
    /\ setFormDataMap(s, Omit(phase[s].formDataMap, phase[s].localKey), ok)
    /\ phase' = [phase EXCEPT ![s] = Idle]
    /\ writes' = [writes EXCEPT ![s] = MarkStale(@)]
    /\ last' = [op |-> "ResetFire", s |-> s, ok |-> ok, localKey |-> phase[s].localKey]
    /\ UNCHANGED <<fields, columnMeta, mounted, tableId, viewId, initialMap, errors,
                   submitCalls, edits, keyChanges>>

Next ==
    \/ \E s \in Sessions, f \in FieldIds : \E v \in EditValues(f) : Edit(s, f, v)
    \/ \E s \in Sessions, ok \in BOOLEAN : WriteFire(s, ok)
    \/ \E s \in Sessions, h \in BOOLEAN : SubmitClick(s, h)
    \/ \E s \in Sessions : SubmitResolve(s)
    \/ \E s \in Sessions : SubmitReject(s)
    \/ \E s \in Sessions, ok \in BOOLEAN : ResetFire(s, ok)

Spec == Init /\ [][Next]_vars

\* the timers fire and the submit call settles
Fairness ==
    \A s \in Sessions :
        /\ WF_vars(\E ok \in BOOLEAN : WriteFire(s, ok))
        /\ WF_vars(SubmitResolve(s) \/ SubmitReject(s))
        /\ WF_vars(\E ok \in BOOLEAN : ResetFire(s, ok))

FairSpec == Spec /\ Fairness

\* ------------------------------------- two pages, identities that change
PopulatedStore == Put(Put(EmptyObj, K1, DraftA), K2, DraftB)

InitKeys ==
    /\ fields = DefaultFields
    /\ columnMeta = DefaultColumnMeta
    /\ store = PopulatedStore
    /\ \E id \in InitIdentities : InitSessions(store, id)

NextKeys ==
    \/ \E s \in Sessions : Mount(s, <<"tbl1", "viw2">>)
    \/ \E s \in Sessions, id \in Identities : IdentityChange(s, id)
    \/ \E s \in Sessions, f \in FieldIds : \E v \in {NULL, TEXT} : Edit(s, f, v)
    \/ \E s \in Sessions : WriteFire(s, TRUE)
    \/ \E s \in Sessions : SubmitClick(s, TRUE)
    \/ \E s \in Sessions : SubmitResolve(s)
    \/ \E s \in Sessions : ResetFire(s, TRUE)

KeySpec == InitKeys /\ [][NextKeys]_vars

\* ------------------------------------------------- verify over all inputs
MaxFields == 2

\* the field lists of at most MaxFields fields with distinct ids
FieldLists ==
    {fs \in UNION {[1..n -> [id : FieldIds, isComputed : BOOLEAN, isLookup : BOOLEAN]] :
                       n \in 1..MaxFields} :
        \A i, j \in 1..Len(fs) : i # j => fs[i].id # fs[j].id}

\* the drafts localStorage may hold (JSON null included)
StoredDrafts == UNION {[d -> {NULL, TEXT}] : d \in SUBSET FieldIds}

InitVerify ==
    /\ fields \in FieldLists
    /\ columnMeta \in [FieldIds -> [required : BOOLEAN]]
    /\ \E d \in StoredDrafts : store = Put(EmptyObj, K1, d)
    /\ InitSessions(store, <<"tbl1", "viw1">>)

NextVerify == \E s \in Sessions, h \in BOOLEAN : SubmitClick(s, h)

VerifySpec == InitVerify /\ [][NextVerify]_vars

\* ================================================================ claims
\* the ids of the visible fields the column metadata marks required
RequiredVisibleIds ==
    {fields[i].id : i \in {j \in 1..Len(fields) :
        /\ ~fields[j].isComputed /\ ~fields[j].isLookup
        /\ columnMeta[fields[j].id].required}}

Missing(data, f) == f \notin DOMAIN data \/ data[f] \in {NULL, UNDEFINED}

\* positions in fields of the required visible fields without a value
MissingAt(data) ==
    {i \in 1..Len(fields) :
        /\ ~fields[i].isComputed /\ ~fields[i].isLookup
        /\ columnMeta[fields[i].id].required
        /\ Missing(data, fields[i].id)}

\* C1: once the delayed reset after a successful submit has run (and no
\* durable write was lost), localStorage has no entry for the active
\* StorageKey and formData is the empty mapping, also for a session that
\* was hydrated from a non-empty persisted draft.
C1_SubmitResetClears ==
    (last.op = "ResetFire" /\ writeFailed = 0) =>
        /\ localKey(last.s) \notin DOMAIN store
        /\ formData[last.s] = EmptyObj

\* C2: the session mounted for K1 (session 1, hydrated from K1's draft)
\* never changes or removes the entry localStorage holds under K2.
C2_OtherKeyUntouched ==
    [][(last'.s = 1 /\ initialMap[1] = DraftA /\ K2 \in DOMAIN store) =>
          (K2 \in DOMAIN store' /\ store'[K2] = store[K2])]_vars

\* C3: verify succeeds if and only if every required visible field has a
\* non-null entry in the draft.
C3_VerifyIff ==
    last.op = "SubmitClick" =>
        (last.ok <=> \A f \in RequiredVisibleIds : ~Missing(formData[last.s], f))

C3_Witness ==
    /\ last.op = "SubmitClick" /\ last.ok
    /\ RequiredVisibleIds # {}
    /\ \E f \in DOMAIN formData[last.s] : formData[last.s][f] = NULL

\* C4: when verify fails, the field it scrolls to is the first field, in
\* the order of the field list, that is visible, required and has a null
\* or absent value.
C4_FirstFailing ==
    (last.op = "SubmitClick" /\ ~last.ok) =>
        /\ MissingAt(formData[last.s]) # {}
        /\ \E i \in MissingAt(formData[last.s]) :
              /\ \A j \in MissingAt(formData[last.s]) : i <= j
              /\ last.first = fields[i].id

C4_Witness ==
    /\ last.op = "SubmitClick" /\ ~last.ok
    /\ Cardinality(MissingAt(formData[last.s])) >= 2

C6_ResetEffects ==
    [][(last'.op = "ResetFire" /\ last'.ok) =>
          /\ last'.localKey \notin DOMAIN store'
          /\ formData'[last'.s] = EmptyObj
          /\ ~loading'[last'.s]
          /\ submitCalls' = submitCalls]_vars

\* C7: a submit click whose verify fails leaves loading false, does not
\* invoke submit, schedules no reset and leaves formData, formDataMap and
\* localStorage unchanged; only errors may change.
C7_FailedVerifyFrame ==
    [][(last'.op = "SubmitClick" /\ ~last'.ok) =>
          /\ loading' = loading /\ ~loading'[last'.s]
          /\ submitCalls' = submitCalls
          /\ phase' = phase /\ phase'[last'.s].pc = "idle"
          /\ writes' = writes
          /\ formData' = formData /\ formDataMap' = formDataMap /\ store' = store]_vars

C7_Witness ==
    /\ last.op = "SubmitClick" /\ ~last.ok
    /\ formData[last.s] # EmptyObj
    /\ errors[last.s] # {}

\* C8: submit is invoked only by a submit click whose verify succeeded, with
\* the formData that verify examined, which has a non-null entry for every
\* required visible field.
C8_SubmitAfterVerify ==
    [][\A s \in Sessions : submitCalls'[s] # submitCalls[s] =>
          /\ last'.op = "SubmitClick" /\ last'.s = s /\ last'.ok
          /\ submitCalls'[s] = Append(submitCalls[s], formData[s])
          /\ \A f \in RequiredVisibleIds : ~Missing(formData[s], f)]_vars

C8_Witness ==
    /\ last.op = "SubmitClick" /\ last.ok /\ last.hasSubmit
    /\ Len(submitCalls[last.s]) = 2

\* C9: whenever loading is true it eventually becomes false again.
C9_BusyEventuallyIdle == \A s \in Sessions : loading[s] ~> ~loading[s]

\* C10: an entry of formData changes or disappears only by an edit of that
\* field or by the reset that follows a submit; a failed verify, a durable
\* write (lost or not) and a rejected submit leave formData as it is.
C10_DraftKept ==
    [][\A s \in Sessions : \A f \in DOMAIN formData[s] :
          (f \notin DOMAIN formData'[s] \/ formData'[s][f] # formData[s][f]) =>
              \/ last'.op = "Edit" /\ last'.s = s /\ last'.fieldId = f
              \/ last'.op = "ResetFire" /\ last'.s = s /\ phase[s].pc = "timer"]_vars

C10_Witness ==
    /\ last.op = "SubmitReject"
    /\ formData[last.s] # EmptyObj
    /\ writeFailed > 0

\* C11: a deferred write scheduled by an edit before a reset never puts an
\* entry back under a StorageKey that has none when it fires.
C11_NoStaleWriteBack ==
    [][(last'.op = "WriteFire" /\ last'.stale /\ last'.localKey \notin DOMAIN store) =>
          last'.localKey \notin DOMAIN store']_vars

C13_NoExplicitNull ==
    /\ \A s \in Sessions : \A f \in DOMAIN formData[s] : formData[s][f] \notin {NULL, UNDEFINED}
    /\ \A k \in DOMAIN store : \A f \in DOMAIN store[k] : store[k][f] \notin {NULL, UNDEFINED}
    /\ (last.op = "Edit" /\ last.value \in {NULL, UNDEFINED}) =>
           last.fieldId \notin DOMAIN formData[last.s]

C13_Witness ==
    /\ last.op = "WriteFire" /\ last.ok
    /\ initialMap[1] = DraftA
    /\ "a" \notin DOMAIN formData[1]
    /\ K1 \in DOMAIN store /\ "a" \notin DOMAIN store[K1]

\* C14: after every verify pass errors is exactly the set of required
\* visible fields whose value is null or absent, whatever it held before.
C14_ErrorsRecomputed ==
    last.op = "SubmitClick" =>
        errors[last.s] = {f \in RequiredVisibleIds : Missing(formData[last.s], f)}

C14_Witness ==
    /\ last.op = "SubmitClick"
    /\ \E f \in last.errorsBefore : f \notin errors[last.s]
    /\ errors[last.s] # {}

\* C15: while loading is true an edit event changes neither formData nor
\* errors nor schedules a durable write.
C15_NoEditWhileBusy ==
    [][(last'.op = "Edit" /\ loading[last'.s]) =>
          /\ formData' = formData
          /\ errors' = errors
          /\ writes' = writes]_vars

\* C16: submit is invoked only while loading is false and no earlier
\* onSubmit is awaiting its submit call or its reset timer, so at most one
\* delayed reset is pending.
C16_OneSubmitAtATime ==
    [][\A s \in Sessions :
          (submitCalls'[s] # submitCalls[s] \/ (phase'[s].pc # "idle" /\ phase[s].pc = "idle")) =>
              /\ ~loading[s]
              /\ phase[s].pc = "idle"
              /\ loading'[s]]_vars

C16_Witness ==
    /\ Len(submitCalls[1]) = 2
    /\ loading[1]
    /\ phase[1].pc = "timer"

\* C17: before any edit, the formData of a session whose table and view
\* are known equals the draft localStorage holds under its StorageKey, or
\* the empty mapping when there is none.
C17_HydratedFromKey ==
    \A s \in Sessions :
        (mounted[s] /\ viewId[s] # UNDEFINED /\ edits = 0) =>
            formData[s] = GetOrEmpty(store, localKey(s))

\* C18: a computed or lookup field is never in errors, is never the scroll
\* target, and a verify fails only if a visible required field has no value.
C18_ComputedNeverValidated ==
    last.op = "SubmitClick" =>
        /\ \A i \in 1..Len(fields) :
              (fields[i].isComputed \/ fields[i].isLookup) =>
                  /\ fields[i].id \notin errors[last.s]
                  /\ last.first # fields[i].id
        /\ ~last.ok => \E i \in 1..Len(fields) :
              /\ ~fields[i].isComputed /\ ~fields[i].isLookup
              /\ Missing(formData[last.s], fields[i].id)

C18_Witness ==
    /\ last.op = "SubmitClick" /\ last.ok
    /\ \E i \in 1..Len(fields) :
          /\ fields[i].isLookup
          /\ columnMeta[fields[i].id].required
          /\ fields[i].id \notin DOMAIN formData[last.s]
    /\ \E i \in 1..Len(fields) : ~fields[i].isComputed /\ ~fields[i].isLookup

\* the in-memory part of the sessions
Mem ==
    [formData |-> formData, errors |-> errors, loading |-> loading,
     submitCalls |-> submitCalls, initialMap |-> initialMap]

\* the in-memory part after event e, computed from the in-memory part m
\* alone: it reads neither localStorage nor formDataMap nor the outcome of
\* a durable write
MemNext(m, e) ==
    LET s == e.s
        miss == {f \in RequiredVisibleIds : Missing(m.formData[s], f)}
    IN CASE e.op = "Edit" ->
              [m EXCEPT !.formData[s] = IF e.value \in {NULL, UNDEFINED}
                                         THEN Omit(@, e.fieldId)
                                         ELSE Put(@, e.fieldId, e.value),
                        !.errors[s] = IF e.value \in {NULL, UNDEFINED, EMPTY, ZERO}
                                       THEN @ ELSE @ \ {e.fieldId}]
         [] e.op = "SubmitClick" ->
              [m EXCEPT !.errors[s] = miss,
                        !.loading[s] = (miss = {}),
                        !.submitCalls[s] = IF miss = {} /\ e.hasSubmit
                                            THEN Append(@, m.formData[s]) ELSE @]
         [] e.op = "ResetFire" ->
              [m EXCEPT !.loading[s] = FALSE, !.formData[s] = m.initialMap[s]]
         [] OTHER -> m

\* C19: formData, errors, loading, the result of each verify and the
\* arguments of submit after an event are a function of their values before
\* it and of the event, whether durable writes succeed or silently no-op.
C19_MemoryIgnoresPersistence ==
    [][/\ Mem' = MemNext(Mem, last')
       /\ last'.op = "SubmitClick" =>
              (last'.ok <=> \A f \in RequiredVisibleIds : ~Missing(formData[last'.s], f))]_vars

C19_Witness ==
    /\ last.op = "ResetFire" /\ ~last.ok
    /\ localKey(last.s) \in DOMAIN store
    /\ ~loading[last.s]
    /\ submitCalls[last.s] # <<>>

====
